---- MODULE Spec2Model ----
(***************************************************************************)
(* Model of crates/image-ops/src/scale/filter.rs: the Filter enumeration,  *)
(* the kernel functions sinc, cubic_bc, lagrange, mks2013, mks2021 and the *)
(* conversion From<Filter> for resize::Type.                               *)
(*                                                                         *)
(* f32 values are modelled as exact rationals <<n, d>> in lowest terms     *)
(* with d > 0; a zero denominator stands for the non-finite result of a    *)
(* division by zero.  The result of a kernel is a value r + ip / pi with   *)
(* r and ip rational, so that sinc(pi * a) = sin(pi * a) / (pi * a) is     *)
(* represented exactly; sin and cos of pi * a are taken where they are     *)
(* rational, i.e. for a a multiple of 1/2.                                 *)
(***************************************************************************)
EXTENDS Integers, Sequences, FiniteSets, TLC

\* ------------------------------------------------------------------ bounds
\* samples are the multiples of 1/Den and of 1/2 in [-MaxAbs, MaxAbs]
Den == 4
MaxAbs == 5

\* ------------------------------------------------------- rational numbers
IAbs(n) == IF n < 0 THEN -n ELSE n

RECURSIVE GCD(_, _)
GCD(a, b) == IF b = 0 THEN a ELSE GCD(b, a % b)

R(n, d) ==
    IF d = 0 THEN <<0, 0>>
    ELSE LET g == GCD(IAbs(n), IAbs(d))
             s == IF d < 0 THEN -1 ELSE 1
         IN  <<(s * n) \div g, (s * d) \div g>>

Zero == R(0, 1)
One == R(1, 1)
FromInt(n) == R(n, 1)

RAdd(a, b) == R(a[1] * b[2] + b[1] * a[2], a[2] * b[2])
RNeg(a) == R(-a[1], a[2])
RSub(a, b) == RAdd(a, RNeg(b))
RMul(a, b) == R(a[1] * b[1], a[2] * b[2])
RDiv(a, b) == R(a[1] * b[2], a[2] * b[1])
RLt(a, b) == a[1] * b[2] < b[1] * a[2]
RLe(a, b) == a[1] * b[2] <= b[1] * a[2]
RGt(a, b) == RLt(b, a)
RAbs(a) == R(IAbs(a[1]), a[2])
\* `as isize`: truncation toward zero
Trunc(a) == IF a[1] >= 0 THEN a[1] \div a[2] ELSE -((-a[1]) \div a[2])
powi2(a) == RMul(a, a)
powi3(a) == RMul(a, RMul(a, a))

\* values r + ip / pi
V(r) == [r |-> r, ip |-> Zero]
VScale(v, q) == [r |-> RMul(v.r, q), ip |-> RMul(v.ip, q)]
VZero == V(Zero)
VOne == V(One)

\* --------------------------------------------------------------- the enum
Filter ==
    {"Nearest", "Box", "Linear", "Hermite", "CubicCatrom", "CubicMitchell",
     "CubicBSpline", "Hamming", "Hann", "Lanczos3", "Lagrange", "Gauss",
     "MKS2013", "MKS2021"}

\* ------------------------------------------------------------------ inputs
Samples ==
    {R(k, Den) : k \in (-(MaxAbs * Den))..(MaxAbs * Den)}
        \cup {R(h, 2) : h \in (-(2 * MaxAbs))..(2 * MaxAbs)}

IsHalf(a) == a[2] \in {1, 2}

BCValues == {Zero, R(1, 3), R(1, 2), One}

\* -------------------------------------------------------------------- sinc
\* sin(pi * a) and cos(pi * a) for a a non-negative multiple of 1/2
SinPi(a) == LET h == ((2 * a[1]) \div a[2]) % 4
            IN  CASE h = 0 -> Zero [] h = 1 -> One
                  [] h = 2 -> Zero [] OTHER -> FromInt(-1)
CosPi(a) == LET h == ((2 * a[1]) \div a[2]) % 4
            IN  CASE h = 0 -> One [] h = 1 -> Zero
                  [] h = 2 -> FromInt(-1) [] OTHER -> Zero

\* sinc without the test for 0: sin(x) / x at every x
sinc_naive(a) == [r |-> Zero, ip |-> RDiv(SinPi(a), a)]

\* sinc(pi * a), the argument given by its coefficient a of pi
sinc(a) ==
    IF a = Zero THEN VOne
    ELSE [r |-> Zero, ip |-> RDiv(SinPi(a), a)]

\* ---------------------------------------------------------------- cubic_bc
\* cubic_bc with the sign of the quadratic coefficient of the inner band lost
cubic_bc_sign(b, c, x) ==
    LET a == RAbs(x)
        k == IF RLt(a, One)
             THEN RAdd(RAdd(
                    RMul(RSub(RSub(FromInt(12), RMul(FromInt(9), b)),
                              RMul(FromInt(6), c)), powi3(a)),
                    RMul(RAdd(RAdd(FromInt(18), RMul(FromInt(12), b)),
                              RMul(FromInt(6), c)), powi2(a))),
                    RSub(FromInt(6), RMul(FromInt(2), b)))
             ELSE IF RLt(a, FromInt(2))
             THEN RAdd(RAdd(RAdd(
                    RMul(RSub(RNeg(b), RMul(FromInt(6), c)), powi3(a)),
                    RMul(RAdd(RMul(FromInt(6), b), RMul(FromInt(30), c)),
                         powi2(a))),
                    RMul(RSub(RMul(FromInt(-12), b), RMul(FromInt(48), c)), a)),
                    RAdd(RMul(FromInt(8), b), RMul(FromInt(24), c)))
             ELSE Zero
    IN  RDiv(k, FromInt(6))

cubic_bc(b, c, x) ==
    LET a == RAbs(x)
        k == IF RLt(a, One)
             THEN RAdd(RAdd(
                    RMul(RSub(RSub(FromInt(12), RMul(FromInt(9), b)),
                              RMul(FromInt(6), c)), powi3(a)),
                    RMul(RAdd(RAdd(FromInt(-18), RMul(FromInt(12), b)),
                              RMul(FromInt(6), c)), powi2(a))),
                    RSub(FromInt(6), RMul(FromInt(2), b)))
             ELSE IF RLt(a, FromInt(2))
             THEN RAdd(RAdd(RAdd(
                    RMul(RSub(RNeg(b), RMul(FromInt(6), c)), powi3(a)),
                    RMul(RAdd(RMul(FromInt(6), b), RMul(FromInt(30), c)),
                         powi2(a))),
                    RMul(RSub(RMul(FromInt(-12), b), RMul(FromInt(48), c)), a)),
                    RAdd(RMul(FromInt(8), b), RMul(FromInt(24), c)))
             ELSE Zero
    IN  RDiv(k, FromInt(6))

\* ---------------------------------------------------------------- lagrange
\* the division made for every d
lagrange_divides_always(d) == TRUE

\* the test `if d != 0.0` guarding the division
lagrange_divides(d) == d # 0

RECURSIVE lagrange_loop(_, _, _, _, _)
lagrange_loop(i, order, n, x, value) ==
    IF i >= order THEN value
    ELSE LET d == n - i
         IN  lagrange_loop(i + 1, order, n, x,
                 IF lagrange_divides(d)
                 THEN RMul(value, RDiv(RSub(FromInt(d), x), FromInt(d)))
                 ELSE value)

lagrange_order(support) == Trunc(RMul(FromInt(2), support))
\* n taken from the support alone
lagrange_n_support(x, support) == Trunc(support)
lagrange_n(x, support) == Trunc(RAdd(support, RAbs(x)))

lagrange(x, support) ==
    LET a == RAbs(x)
    IN  IF RGt(a, support) THEN Zero
        ELSE lagrange_loop(0, lagrange_order(support), lagrange_n(a, support),
                           a, One)

\* the denominators d the loop divides by in lagrange(x, support)
lagrange_divisors(x, support) ==
    LET a == RAbs(x)
    IN  IF RGt(a, support) THEN {}
        ELSE {d \in {lagrange_n(a, support) - i :
                        i \in 0..(lagrange_order(support) - 1)} :
                 lagrange_divides(d)}

\* ----------------------------------------------------------------- mks2013
mks2013_breaks == <<R(1, 2), R(3, 2), R(5, 2)>>

\* the outer band with the coefficient -0.25
mks2013_band_quarter(band, x) ==
    CASE band = 1 ->
           RAdd(R(5, 8), RMul(RMul(R(7, 4), RSub(R(1, 2), x)), RAdd(R(1, 2), x)))
      [] band = 2 -> RMul(RSub(One, x), RSub(R(7, 4), x))
      [] band = 3 -> RMul(RMul(R(-1, 4), RSub(R(5, 2), x)), RSub(R(5, 2), x))
      [] OTHER -> Zero

\* the formula of the band-th branch
mks2013_band(band, x) ==
    CASE band = 1 ->
           RAdd(R(5, 8), RMul(RMul(R(7, 4), RSub(R(1, 2), x)), RAdd(R(1, 2), x)))
      [] band = 2 -> RMul(RSub(One, x), RSub(R(7, 4), x))
      [] band = 3 -> RMul(RMul(R(-1, 8), RSub(R(5, 2), x)), RSub(R(5, 2), x))
      [] OTHER -> Zero

mks2013(x) ==
    IF RLt(x, mks2013_breaks[1]) THEN mks2013_band(1, x)
    ELSE IF RLt(x, mks2013_breaks[2]) THEN mks2013_band(2, x)
    ELSE IF RLt(x, mks2013_breaks[3]) THEN mks2013_band(3, x)
    ELSE mks2013_band(4, x)

\* ----------------------------------------------------------------- mks2021
mks2021_breaks == <<R(1, 2), R(3, 2), R(5, 2), R(7, 2), R(9, 2)>>

mks2021_band(band, x) ==
    CASE band = 1 -> RSub(R(577, 576), RMul(RMul(R(239, 144), x), x))
      [] band = 2 ->
           RMul(RMul(R(35, 36), RSub(x, One)), RSub(x, R(239, 140)))
      [] band = 3 ->
           RMul(RMul(R(1, 6), RSub(x, FromInt(2))), RSub(R(65, 24), x))
      [] band = 4 ->
           RMul(RMul(R(1, 36), RSub(x, FromInt(3))), RSub(x, R(15, 4)))
      [] band = 5 ->
           RMul(RMul(RNeg(R(1, 288)), RSub(x, R(9, 2))), RSub(x, R(9, 2)))
      [] OTHER -> Zero

mks2021(x) ==
    IF RLt(x, mks2021_breaks[1]) THEN mks2021_band(1, x)
    ELSE IF RLt(x, mks2021_breaks[2]) THEN mks2021_band(2, x)
    ELSE IF RLt(x, mks2021_breaks[3]) THEN mks2021_band(3, x)
    ELSE IF RLt(x, mks2021_breaks[4]) THEN mks2021_band(4, x)
    ELSE IF RLt(x, mks2021_breaks[5]) THEN mks2021_band(5, x)
    ELSE mks2021_band(6, x)

\* ------------------------------------------- From<Filter> for resize::Type
Custom == {"Box", "Hermite", "Hamming", "Hann", "Lagrange", "MKS2013", "MKS2021"}
Windowed == {"Hamming", "Hann"}

\* the MKS2013 kernel given the support 2.0
support_short(filter) ==
    CASE filter = "Box" -> One
      [] filter = "Hermite" -> One
      [] filter = "Hamming" -> One
      [] filter = "Hann" -> One
      [] filter = "Lagrange" -> FromInt(2)
      [] filter = "MKS2013" -> FromInt(2)
      [] filter = "MKS2021" -> R(9, 2)

\* second argument of resize::Filter::new in each Custom arm
support(filter) ==
    CASE filter = "Box" -> One
      [] filter = "Hermite" -> One
      [] filter = "Hamming" -> One
      [] filter = "Hann" -> One
      [] filter = "Lagrange" -> FromInt(2)
      [] filter = "MKS2013" -> R(5, 2)
      [] filter = "MKS2021" -> R(9, 2)

\* first argument of resize::Filter::new in each Custom arm, applied to x
kernel(filter, x) ==
    CASE filter = "Box" ->
           IF RLe(RAbs(x), R(1, 2)) THEN VOne ELSE VZero
      [] filter = "Hermite" -> V(cubic_bc(Zero, Zero, x))
      [] filter = "Hamming" ->
           LET a == RAbs(x)
           IN  VScale(sinc(a), RAdd(R(27, 50), RMul(R(23, 50), CosPi(a))))
      [] filter = "Hann" ->
           LET a == RAbs(x)
           IN  VScale(sinc(a), RAdd(R(1, 2), RMul(R(1, 2), CosPi(a))))
      [] filter = "Lagrange" -> V(lagrange(x, FromInt(2)))
      [] filter = "MKS2013" -> V(mks2013(x))
      [] filter = "MKS2021" -> V(mks2021(x))

NoSupport == <<0, 0>>

\* the CubicMitchell arm returning the kernel of the arm above it
from_mitchell_catrom(filter) ==
    CASE filter = "Nearest" -> [tag |-> "Point", support |-> NoSupport]
      [] filter = "Linear" -> [tag |-> "Triangle", support |-> NoSupport]
      [] filter = "CubicCatrom" -> [tag |-> "Catrom", support |-> NoSupport]
      [] filter = "CubicMitchell" -> [tag |-> "Catrom", support |-> NoSupport]
      [] filter = "CubicBSpline" -> [tag |-> "BSpline", support |-> NoSupport]
      [] filter = "Lanczos3" -> [tag |-> "Lanczos3", support |-> NoSupport]
      [] filter = "Gauss" -> [tag |-> "Gaussian", support |-> NoSupport]
      [] OTHER -> [tag |-> "Custom", support |-> support(filter)]

from(filter) ==
    CASE filter = "Nearest" -> [tag |-> "Point", support |-> NoSupport]
      [] filter = "Box" -> [tag |-> "Custom", support |-> support(filter)]
      [] filter = "Linear" -> [tag |-> "Triangle", support |-> NoSupport]
      [] filter = "Hermite" -> [tag |-> "Custom", support |-> support(filter)]
      [] filter = "CubicCatrom" -> [tag |-> "Catrom", support |-> NoSupport]
      [] filter = "CubicMitchell" -> [tag |-> "Mitchell", support |-> NoSupport]
      [] filter = "CubicBSpline" -> [tag |-> "BSpline", support |-> NoSupport]
      [] filter = "Hamming" -> [tag |-> "Custom", support |-> support(filter)]
      [] filter = "Hann" -> [tag |-> "Custom", support |-> support(filter)]
      [] filter = "Lanczos3" -> [tag |-> "Lanczos3", support |-> NoSupport]
      [] filter = "Lagrange" -> [tag |-> "Custom", support |-> support(filter)]
      [] filter = "Gauss" -> [tag |-> "Gaussian", support |-> NoSupport]
      [] filter = "MKS2013" -> [tag |-> "Custom", support |-> support(filter)]
      [] filter = "MKS2021" -> [tag |-> "Custom", support |-> support(filter)]

\* ------------------------------------------------------------------- state
\* The program keeps no state of its own; the state is the record of the call
\* made last: the function, its arguments and what it returned.
VARIABLES
    op,       \* the function applied last: "init", "from", "kernel", "cubic_bc"
    filter,   \* the Filter given to the last conversion
    type,     \* the resize::Type the last conversion returned
    x,        \* the distance given to the last kernel or cubic_bc call
    bc,       \* the (b, c) given to the last cubic_bc call
    y,        \* the value the last kernel or cubic_bc call returned
    divisors  \* the denominators the last lagrange call divided by

vars == <<op, filter, type, x, bc, y, divisors>>

NoFilter == "none"
NoType == [tag |-> "none", support |-> NoSupport]

Init ==
    /\ op = "init"
    /\ filter = NoFilter
    /\ type = NoType
    /\ x = Zero
    /\ bc = <<Zero, Zero>>
    /\ y = VZero
    /\ divisors = {}

\* resize::Type::from(f)
From(f) ==
    /\ op' = "from"
    /\ filter' = f
    /\ type' = from(f)
    /\ x' = Zero
    /\ bc' = <<Zero, Zero>>
    /\ y' = VZero
    /\ divisors' = {}

\* the resampler calls the kernel of the Custom filter built last
Kernel(s) ==
    /\ type.tag = "Custom"
    /\ filter \in Windowed => IsHalf(s)
    /\ op' = "kernel"
    /\ x' = s
    /\ y' = kernel(filter, s)
    /\ divisors' = IF filter = "Lagrange"
                   THEN lagrange_divisors(s, FromInt(2)) ELSE {}
    /\ UNCHANGED <<filter, type, bc>>

\* cubic_bc(b, c, s), called on its own
CubicBc(b, c, s) ==
    /\ op' = "cubic_bc"
    /\ bc' = <<b, c>>
    /\ x' = s
    /\ y' = V(cubic_bc(b, c, s))
    /\ divisors' = {}
    /\ filter' = NoFilter
    /\ type' = NoType

Next ==
    \/ \E f \in Filter : From(f)
    \/ \E s \in Samples : Kernel(s)
    \/ \E b \in BCValues, c \in BCValues, s \in Samples : CubicBc(b, c, s)

Spec == Init /\ [][Next]_vars

TypeOK ==
    /\ op \in {"init", "from", "kernel", "cubic_bc"}
    /\ filter \in Filter \cup {NoFilter}
    /\ x \in Samples
    /\ y.r[2] > 0 /\ y.ip[2] > 0

\* ------------------------------------------------------------- properties
KernelCalled == op = "kernel"
Outside == RGt(RAbs(x), type.support)

\* C1: a kernel built by the conversion returns exactly 0 at every x, positive
\* or negative, with |x| greater than the support it was built with.
C1_ZeroOutsideSupport == (KernelCalled /\ Outside) => y = VZero

\* C2: a kernel built by the conversion returns the same value at x and at -x.
C2_EvenSymmetry == KernelCalled => y = kernel(filter, RNeg(x))

\* C3 as stated: the support of each custom kernel is Box 0.5, Hermite 1.0,
\* Hamming 1.0, Hann 1.0, Lagrange 2.0, MKS2013 2.5, MKS2021 4.5.
C3_SupportTableStated ==
    (op = "from" /\ type.tag = "Custom") =>
        type.support = CASE filter = "Box" -> R(1, 2)
                         [] filter = "Hermite" -> One
                         [] filter = "Hamming" -> One
                         [] filter = "Hann" -> One
                         [] filter = "Lagrange" -> FromInt(2)
                         [] filter = "MKS2013" -> R(5, 2)
                         [] filter = "MKS2021" -> R(9, 2)
                         [] OTHER -> NoSupport

\* C3 amended: the support of each custom kernel is Box 1.0, Hermite 1.0,
\* Hamming 1.0, Hann 1.0, Lagrange 2.0, MKS2013 2.5, MKS2021 4.5.
C3_SupportTable ==
    (op = "from" /\ type.tag = "Custom") =>
        type.support = CASE filter = "Box" -> One
                         [] filter = "Hermite" -> One
                         [] filter = "Hamming" -> One
                         [] filter = "Hann" -> One
                         [] filter = "Lagrange" -> FromInt(2)
                         [] filter = "MKS2013" -> R(5, 2)
                         [] filter = "MKS2021" -> R(9, 2)
                         [] OTHER -> NoSupport

C3_Witness == op = "from" /\ filter = "Box" /\ type.tag = "Custom"

\* C5: the conversion maps Linear, CubicCatrom, CubicMitchell, CubicBSpline,
\* Lanczos3 and Gauss to the resampler's Triangle, Catrom, Mitchell, BSpline,
\* Lanczos3 and Gaussian, Nearest to Point, and every other kind to Custom.
C5_Delegation ==
    op = "from" =>
        type.tag = CASE filter = "Linear" -> "Triangle"
                     [] filter = "CubicCatrom" -> "Catrom"
                     [] filter = "CubicMitchell" -> "Mitchell"
                     [] filter = "CubicBSpline" -> "BSpline"
                     [] filter = "Lanczos3" -> "Lanczos3"
                     [] filter = "Gauss" -> "Gaussian"
                     [] filter = "Nearest" -> "Point"
                     [] OTHER -> "Custom"

C5_Witness == op = "from" /\ filter = "CubicMitchell" /\ type.tag = "Mitchell"

\* C6: the Lagrange kernel with support 2 returns 1 at 0 and 0 at every
\* |x| > 2, and for |x| <= 2 it never divides by 0: the factors it divides by
\* are exactly those of the four denominators n - i that are not 0.
C6_Lagrange ==
    (KernelCalled /\ filter = "Lagrange") =>
        /\ x = Zero => y = VOne
        /\ Outside => y = VZero
        /\ ~Outside =>
             /\ 0 \notin divisors
             /\ y.r[2] # 0
             /\ LET n == Trunc(RAdd(FromInt(2), RAbs(x)))
                IN  divisors = {n, n - 1, n - 2, n - 3} \ {0}

\* x is on an integer offset where one of the denominators is 0
C6_Witness ==
    /\ KernelCalled /\ filter = "Lagrange" /\ x = One
    /\ divisors = {3, 2, 1} /\ y = VZero

\* C7: at each breakpoint of MKS2013 and MKS2021 the formula of the band
\* below and the formula of the band above give the same value, which is the
\* value the kernel returns there.
C7_Continuity ==
    /\ (KernelCalled /\ filter = "MKS2013") =>
         \A i \in 1..Len(mks2013_breaks) :
            x = mks2013_breaks[i] =>
               /\ mks2013_band(i, x) = mks2013_band(i + 1, x)
               /\ y = V(mks2013_band(i, x))
    /\ (KernelCalled /\ filter = "MKS2021") =>
         \A i \in 1..Len(mks2021_breaks) :
            x = mks2021_breaks[i] =>
               /\ mks2021_band(i, x) = mks2021_band(i + 1, x)
               /\ y = V(mks2021_band(i, x))

C7_Witness ==
    KernelCalled /\ filter = "MKS2021" /\ x = R(7, 2) /\ y = V(R(-1, 288))

Hermite ==
    \/ op = "cubic_bc" /\ bc = <<Zero, Zero>>
    \/ KernelCalled /\ filter = "Hermite"

\* C8 as stated: cubic_bc(0, 0, x) is 1 at 0, 0.5 at 0.5, 0 at 1, negative at
\* 1.5 and 0 at 2.
C8_HermiteStated ==
    Hermite =>
        /\ x = Zero => y = VOne
        /\ x = R(1, 2) => y = V(R(1, 2))
        /\ x = One => y = VZero
        /\ x = R(3, 2) => (y.ip = Zero /\ RLt(y.r, Zero))
        /\ x = FromInt(2) => y = VZero

\* C8 amended: cubic_bc(0, 0, x) is 1 at 0, 0.5 at 0.5, 0 at 1, 0 at 1.5 and
\* 0 at 2.
C8_Hermite ==
    Hermite =>
        /\ x = Zero => y = VOne
        /\ x = R(1, 2) => y = V(R(1, 2))
        /\ x = One => y = VZero
        /\ x = R(3, 2) => y = VZero
        /\ x = FromInt(2) => y = VZero

C8_Witness == op = "cubic_bc" /\ bc = <<Zero, Zero>> /\ x = R(3, 2)

\* C9: at distance 0 the Box, Hamming and Hann kernels return 1, and
\* cubic_bc(B, C, 0) is (6 - 2B) / 6: 1 for B = 0, 8/9 for B = 1/3, 2/3 for
\* B = 1.
C9_Peak ==
    /\ (KernelCalled /\ filter \in {"Box", "Hamming", "Hann"} /\ x = Zero) =>
          y = VOne
    /\ (op = "cubic_bc" /\ x = Zero) =>
          /\ y = V(RDiv(RSub(FromInt(6), RMul(FromInt(2), bc[1])), FromInt(6)))
          /\ bc[1] = Zero => y = VOne
          /\ bc[1] = R(1, 3) => y = V(R(8, 9))
          /\ bc[1] = One => y = V(R(2, 3))

C9_Witness ==
    \/ op = "cubic_bc" /\ x = Zero /\ bc = <<R(1, 3), R(1, 3)>> /\ y = V(R(8, 9))
    \/ KernelCalled /\ filter = "Hamming" /\ x = Zero /\ y = VOne

\* the classical 4-point Lagrange basis at distance a
Classical(a) ==
    IF RLt(a, One)
    THEN RDiv(RMul(RMul(RSub(FromInt(2), a), RSub(One, a)), RAdd(One, a)),
              FromInt(2))
    ELSE RDiv(RMul(RMul(RSub(FromInt(3), a), RSub(FromInt(2), a)),
                   RSub(One, a)), FromInt(6))

\* C10: for |x| <= 2 the Lagrange kernel equals the classical 4-point basis
\* (2-a)(1-a)(1+a)/2 on [0, 1) and (3-a)(2-a)(1-a)/6 on [1, 2], a = |x|, and
\* for an offset t in [0, 1) the weights at t+1, t, 1-t and 2-t sum to 1.
C10_Classical ==
    (KernelCalled /\ filter = "Lagrange" /\ ~Outside) =>
        /\ y = V(Classical(RAbs(x)))
        /\ (RLe(Zero, x) /\ RLt(x, One)) =>
              RAdd(RAdd(kernel(filter, RAdd(x, One)).r, y.r),
                   RAdd(kernel(filter, RSub(One, x)).r,
                        kernel(filter, RSub(FromInt(2), x)).r)) = One

C10_Witness ==
    \/ KernelCalled /\ filter = "Lagrange" /\ x = R(-3, 2) /\ y = V(R(-1, 16))
    \/ KernelCalled /\ filter = "Lagrange" /\ x = R(1, 2) /\ y = V(R(9, 16))
====
